---- MODULE Spec2Model ----
(***************************************************************************)
(* Model of src/aider/mcp_server.py: the JSON-RPC dispatcher               *)
(* handle_mcp_request, its two handlers handle_get_context and             *)
(* handle_apply_changes, and run_server, which installs the providers.     *)
(*                                                                         *)
(* Every /mcp request is a task of the single asyncio event loop.  A task  *)
(* is "ready" from the moment the request is decoded until the loop runs   *)
(* the endpoint coroutine; it then executes the statements of the          *)
(* dispatcher and of the handler in program order, one provider call per   *)
(* step, and gives the loop back when the coroutine returns.               *)
(*                                                                         *)
(* Strings that the code takes apart or concatenates (paths, messages)     *)
(* are sequences of one-character or literal strings; opaque strings       *)
(* (file contents, identifiers, exception texts) are TLA+ strings.         *)
(***************************************************************************)
EXTENDS Integers, Sequences, FiniteSets, TLC

\* ------------------------------------------------------------------ bounds

\* Longest file_paths list of a getContext request.
MaxPaths == 2

\* Number of requests that can be in flight at once in SpecLoop.
MaxTasks == 2

\* ------------------------------------------------------------- value sets

\* Python's None, for the fields whose other values are opaque strings.
None == "None"

\* File paths, as character sequences.
Paths == { <<"a">>, <<"d", "/", "b">> }

\* File contents.
Contents == { "x", "y" }

\* A path that does not exist, and a path whose read fails otherwise
\* (a directory, undecodable bytes).
Missing == "<missing>"
Unreadable == "<unreadable>"
FileStates == Contents \cup { Missing, Unreadable }

\* JsonRpcRequest.id: absent, an integer, a string.
Ids == { None, "int:7", "str:7" }

\* JsonRpcRequest.method: empty, the two recognized names, an unknown one.
Methods == { "", "getContext", "applyChanges", "listTools" }

\* Lists of at most n paths.
PathLists(n) == UNION { [1..k -> Paths] : k \in 0..n }

\* request.params: None, or a mapping holding any of the keys file_paths,
\* file_path, content.  Each key carries a tag: "absent", "num" (a value of
\* the wrong JSON type) or the well-typed "list" / "str".
NoParams ==
    [ isNone |-> TRUE,
      file_paths_tag |-> "absent", file_paths |-> <<>>,
      file_path_tag |-> "absent", file_path |-> <<>>,
      content_tag |-> "absent", content |-> "" ]

EmptyParams == [ NoParams EXCEPT !.isNone = FALSE ]

ContextParams(n) ==
    { [ EmptyParams EXCEPT !.file_paths_tag = "list", !.file_paths = l ] :
        l \in PathLists(n) }
    \cup { [ EmptyParams EXCEPT !.file_paths_tag = "num" ] }

ChangeParams ==
    { [ EmptyParams EXCEPT !.file_path_tag = "str", !.file_path = p,
                           !.content_tag = "str", !.content = c ] :
        p \in Paths, c \in Contents }
    \cup { [ EmptyParams EXCEPT !.file_path_tag = "str", !.file_path = p ] :
             p \in Paths }
    \cup { [ EmptyParams EXCEPT !.file_path_tag = "str", !.file_path = p,
                                !.content_tag = "num" ] : p \in Paths }
    \cup { [ EmptyParams EXCEPT !.file_path_tag = "num",
                                !.content_tag = "str", !.content = c ] :
             c \in Contents }

ParamsSet == { NoParams, EmptyParams } \cup ContextParams(MaxPaths) \cup ChangeParams

\* Every request the dispatcher can be handed.
Requests == [ method : Methods, params : ParamsSet, id : Ids ]

\* ------------------------------------------------------- response values

\* JSON-RPC error codes used by the dispatcher.
INVALID_REQUEST == -32600
INTERNAL_ERROR == -32603
METHOD_NOT_FOUND == -32601
SERVER_ERROR == -32000

\* An absent result / an absent error (the fields default to None).
NullResult ==
    [ kind |-> "null", files |-> <<>>, success |-> FALSE, message |-> <<>> ]

NullError == [ kind |-> "null", code |-> 0, message |-> <<>> ]

\* The error dictionary {"code": ..., "message": ...}.
ErrorObject(code, message) ==
    [ kind |-> "error", code |-> code, message |-> message ]

\* GetContextResult(files=...).model_dump()
GetContextResult(files) ==
    [ kind |-> "GetContextResult", files |-> files, success |-> FALSE,
      message |-> <<>> ]

\* ApplyChangesResult(success=..., message=...).model_dump()
ApplyChangesResult(success, message) ==
    [ kind |-> "ApplyChangesResult", files |-> <<>>, success |-> success,
      message |-> message ]

\* A JsonRpcResponse that leaves the request identifier out.
JsonRpcResponseNoId(result, error, id) ==
    [ jsonrpc |-> "2.0", result |-> result, error |-> error, id |-> None ]

\* A JsonRpcResponse whose error field is never filled in.
JsonRpcResponseNoError(result, error, id) ==
    [ jsonrpc |-> "2.0", result |-> result, error |-> NullError, id |-> id ]

\* JsonRpcResponse(result=..., error=..., id=...)
JsonRpcResponse(result, error, id) ==
    [ jsonrpc |-> "2.0", result |-> result, error |-> error, id |-> id ]

\* No response yet.
NoResponse == JsonRpcResponse(NullResult, NullError, None)

\* ------------------------------------------------------ parameter parsing

\* request.params or {}
ParamsOrEmpty(params) ==
    IF params.isNone THEN EmptyParams ELSE params

\* GetContextParams(**params) succeeds: file_paths is a list of strings.
\* Keys the model does not declare are ignored.
GetContextParamsValid(params) == params.file_paths_tag = "list"

\* ApplyChangesParams(**params) succeeds: file_path and content are strings.
ApplyChangesParamsValid(params) ==
    params.file_path_tag = "str" /\ params.content_tag = "str"

\* --------------------------------------------------------------- dispatch

\* A dispatcher that looks the method up before it looks at the provider.
RouteLookupFirst(method, io) ==
    IF method = "" THEN "invalid"
    ELSE IF method \notin { "getContext", "applyChanges" } THEN "notfound"
    ELSE IF io = None THEN "uninitialized"
    ELSE method

\* The branch handle_mcp_request takes for a method name and the current
\* value of aider_io.
Route(method, io) ==
    IF method = "" THEN "invalid"
    ELSE IF io = None THEN "uninitialized"
    ELSE IF method = "getContext" THEN "getContext"
    ELSE IF method = "applyChanges" THEN "applyChanges"
    ELSE "notfound"

\* The error object of the three branches that return before any handler.
RouteError(route, method) ==
    IF route = "invalid"
    THEN ErrorObject(INVALID_REQUEST, <<"Invalid Request">>)
    ELSE IF route = "uninitialized"
    THEN ErrorObject(INTERNAL_ERROR, <<"Aider IO not initialized">>)
    ELSE ErrorObject(METHOD_NOT_FOUND, <<"Method '", method, "' not found">>)

\* The dispatcher's except clause: any exception a handler lets out.
ServerError(exc) == ErrorObject(SERVER_ERROR, <<"Server error: ", exc>>)

\* ------------------------------------------------------- handler outcomes
\* What a handler has decided so far: an exception on its way to the
\* caller (raised), or a result to return.

Raise(exc) == [ raised |-> TRUE, exc |-> exc, result |-> NullResult ]

Return(result) == [ raised |-> FALSE, exc |-> "", result |-> result ]

Pending == [ raised |-> FALSE, exc |-> "", result |-> NullResult ]

\* An outer except clause of handle_get_context that returns an empty result.
GetContextExceptSwallow(exc) == Return(GetContextResult(<<>>))

\* handle_get_context's outer except clause: log and re-raise.
GetContextExcept(exc) == Raise(exc)

\* An outer except clause of handle_apply_changes that re-raises.
ApplyChangesExceptReraise(exc) == Raise(exc)

\* handle_apply_changes's outer except clause: a result with success=False.
ApplyChangesExcept(exc) ==
    Return(ApplyChangesResult(FALSE, <<"Error applying changes: ", exc>>))

\* -------------------------------------------------------------- providers

\* aider_io.read_text(file_path) on the file system fs: the text, or the
\* exception it raises.
read_text(fs, file_path) ==
    IF fs[file_path] = Missing
    THEN [ ok |-> FALSE, exc |-> "FileNotFoundError", content |-> None ]
    ELSE IF fs[file_path] = Unreadable
    THEN [ ok |-> FALSE, exc |-> "OSError", content |-> None ]
    ELSE [ ok |-> TRUE, exc |-> "", content |-> fs[file_path] ]

\* aider_io.write_text(file_path, content): the file system afterwards.  A
\* write that raises leaves the file as it was.
write_text(fs, file_path, content, ok) ==
    IF ok THEN [ fs EXCEPT ![file_path] = content ] ELSE fs

\* os.path.basename(file_path): what follows the last "/".
LastSlash(path) ==
    LET S == { i \in 1..Len(path) : path[i] = "/" }
    IN  IF S = {} THEN 0 ELSE CHOOSE i \in S : \A j \in S : j <= i

basename(path) == SubSeq(path, LastSlash(path) + 1, Len(path))

\* A commit message built from the whole path.
CommitMessageFullPath(file_path) == <<"MCP: Apply changes to ">> \o file_path

\* f"MCP: Apply changes to {os.path.basename(file_path)}"
CommitMessage(file_path) ==
    <<"MCP: Apply changes to ">> \o basename(file_path)

\* One provider call, as the log of a request records it.
Call(op, path, content, ok, message, files) ==
    [ op |-> op, path |-> path, content |-> content, ok |-> ok,
      message |-> message, files |-> files ]

\* --------------------------------------------------- handle_get_context

\* A read loop without the generic except clause: only a missing file is
\* absorbed.
ReadOutcomeNotFoundOnly(fs, file_path) ==
    LET r == read_text(fs, file_path)
    IN  IF r.ok THEN [ raised |-> FALSE, exc |-> "", value |-> r.content ]
        ELSE IF r.exc = "FileNotFoundError"
        THEN [ raised |-> FALSE, exc |-> "", value |-> None ]
        ELSE [ raised |-> TRUE, exc |-> r.exc, value |-> None ]

\* The body of the for loop for one path: the value recorded for it (the
\* content, or None after FileNotFoundError and after any other exception).
\* Nothing is raised out of the loop body.
ReadOutcome(fs, file_path) ==
    LET r == read_text(fs, file_path)
    IN  IF r.ok THEN [ raised |-> FALSE, exc |-> "", value |-> r.content ]
        ELSE IF r.exc = "FileNotFoundError"
        THEN [ raised |-> FALSE, exc |-> "", value |-> None ]
        ELSE [ raised |-> FALSE, exc |-> "", value |-> None ]

\* A dictionary update that leaves failed reads out.
StoreEntrySkipNone(file_contents, file_path, value) ==
    IF value = None THEN file_contents
    ELSE (file_path :> value) @@ file_contents

\* file_contents[file_path] = value
StoreEntry(file_contents, file_path, value) ==
    (file_path :> value) @@ file_contents

\* ------------------------------------------------- handle_apply_changes

\* The result when no version-control provider is configured.
NoGitResult(file_path) ==
    ApplyChangesResult(TRUE,
        <<"Changes applied to ">> \o file_path \o <<" (no git repository)">>)

\* The result after a commit that succeeded.
CommittedResult(file_path) ==
    ApplyChangesResult(TRUE,
        <<"Changes applied and committed to ">> \o file_path)

\* A commit failure that is left to the outer except clause.
CommitExceptPropagate(file_path, exc) ==
    ApplyChangesExcept(exc)

\* The inner except clause around the commit: success stays True.
CommitExcept(file_path, exc) ==
    Return(ApplyChangesResult(TRUE,
        <<"Changes applied to ">> \o file_path
            \o <<" but not committed: ", exc>>))

\* ------------------------------------------------------------- event loop

\* A handler that awaits the loop between the write and the commit.
SuspendsBeforeCommit(pc) == pc = "commit"

\* Whether the coroutine gives the event loop back before the statement at
\* pc.  The dispatcher awaits only its own handler coroutines and the
\* handlers call the providers synchronously: nothing between entry and
\* return suspends.
Suspends(pc) == FALSE

\* ------------------------------------------------------------------ state

VARIABLES
    aider_io,        \* the global I/O provider: None or "io"
    aider_git_repo,  \* the global version-control provider: None or "repo"
    started,         \* run_server has been called
    fs,              \* the file system behind the I/O provider
    tasks,           \* the requests in flight, one record per task
    running          \* the task the event loop is executing, 0 when idle

vars == << aider_io, aider_git_repo, started, fs, tasks, running >>

Tasks == 1..MaxTasks

NoRequest == [ method |-> "", params |-> NoParams, id |-> None ]

\* A free task slot.
IdleTask ==
    [ pc |-> "idle", request |-> NoRequest, params |-> EmptyParams, i |-> 0,
      file_contents |-> <<>>, has_git |-> FALSE, outcome |-> Pending,
      response |-> NoResponse, calls |-> <<>> ]

\* Module import: both globals are None and the server has not been
\* started.  The file system is whatever it is.
Init ==
    /\ aider_io = None
    /\ aider_git_repo = None
    /\ started = FALSE
    /\ fs \in [ Paths -> FileStates ]
    /\ tasks = [ t \in Tasks |-> IdleTask ]
    /\ running = 0

\* The task that holds the loop after a step of t that leads to pc.
Holder(t, pc) == IF Suspends(pc) THEN 0 ELSE t

\* t may execute its next statement: it holds the loop, or it was suspended
\* and the loop is free.
CanRun(t) ==
    \/ running = t
    \/ running = 0 /\ Suspends(tasks[t].pc)

\* ---------------------------------------------------------------- actions

\* run_server(io_instance, git_repo_instance, host, port): store the two
\* providers in the globals, then serve.
run_server(io_instance, git_repo_instance) ==
    /\ ~started
    /\ aider_io' = io_instance
    /\ aider_git_repo' = git_repo_instance
    /\ started' = TRUE
    /\ UNCHANGED << fs, tasks, running >>

\* The framework has decoded a POST /mcp body into a JsonRpcRequest and
\* scheduled the endpoint coroutine.
Receive(t, req) ==
    /\ tasks[t].pc = "idle"
    /\ tasks' = [ tasks EXCEPT ![t] = [ IdleTask EXCEPT !.pc = "ready",
                                                        !.request = req ] ]
    /\ UNCHANGED << aider_io, aider_git_repo, started, fs, running >>

\* handle_mcp_request from its first statement to the handler's first
\* provider call: validation of the envelope, the provider check, the
\* dispatch, and the handler's parsing of params.
Enter(t) ==
    /\ tasks[t].pc = "ready"
    /\ running = 0
    /\ LET task == tasks[t]
           req == task.request
           route == Route(req.method, aider_io)
           params == ParamsOrEmpty(req.params)
           next ==
               IF route \in { "invalid", "uninitialized", "notfound" }
               THEN [ task EXCEPT
                        !.pc = "done",
                        !.response = JsonRpcResponse(NullResult,
                                        RouteError(route, req.method), req.id) ]
               ELSE IF route = "getContext"
               THEN IF ~GetContextParamsValid(params)
                    THEN [ task EXCEPT
                             !.pc = "return",
                             !.outcome = GetContextExcept("ValidationError") ]
                    ELSE IF Len(params.file_paths) = 0
                    THEN [ task EXCEPT
                             !.pc = "return", !.params = params,
                             !.outcome = Return(GetContextResult(<<>>)) ]
                    ELSE [ task EXCEPT
                             !.pc = "read", !.params = params, !.i = 1 ]
               ELSE IF ~ApplyChangesParamsValid(params)
                    THEN [ task EXCEPT
                             !.pc = "return",
                             !.outcome = ApplyChangesExcept("ValidationError") ]
                    ELSE [ task EXCEPT
                             !.pc = "write", !.params = params,
                             !.has_git = (aider_git_repo # None) ]
       IN  /\ tasks' = [ tasks EXCEPT ![t] = next ]
           /\ running' = IF next.pc = "done" THEN 0 ELSE Holder(t, next.pc)
    /\ UNCHANGED << aider_io, aider_git_repo, started, fs >>

\* One iteration of handle_get_context's for loop.
ReadStep(t) ==
    /\ tasks[t].pc = "read"
    /\ CanRun(t)
    /\ LET task == tasks[t]
           file_path == task.params.file_paths[task.i]
           r == read_text(fs, file_path)
           o == ReadOutcome(fs, file_path)
           log == Append(task.calls,
                         Call("read", file_path, r.content, r.ok, <<>>, <<>>))
           file_contents == StoreEntry(task.file_contents, file_path, o.value)
           next ==
               IF o.raised
               THEN [ task EXCEPT !.pc = "return", !.calls = log,
                                  !.outcome = GetContextExcept(o.exc) ]
               ELSE IF task.i = Len(task.params.file_paths)
               THEN [ task EXCEPT
                        !.pc = "return", !.calls = log,
                        !.file_contents = file_contents,
                        !.outcome = Return(GetContextResult(file_contents)) ]
               ELSE [ task EXCEPT !.i = task.i + 1, !.calls = log,
                                  !.file_contents = file_contents ]
       IN  /\ tasks' = [ tasks EXCEPT ![t] = next ]
           /\ running' = Holder(t, next.pc)
    /\ UNCHANGED << aider_io, aider_git_repo, started, fs >>

\* aider_io.write_text(file_path, new_content) in handle_apply_changes, and
\* what follows it when nothing is to be committed.
WriteStep(t) ==
    /\ tasks[t].pc = "write"
    /\ CanRun(t)
    /\ \E ok \in BOOLEAN :
         LET task == tasks[t]
             file_path == task.params.file_path
             new_content == task.params.content
             log == Append(task.calls,
                       Call("write", file_path, new_content, ok, <<>>, <<>>))
             next ==
                 IF ~ok
                 THEN [ task EXCEPT
                          !.pc = "return", !.calls = log,
                          !.outcome = ApplyChangesExcept("PermissionError") ]
                 ELSE IF task.has_git
                 THEN [ task EXCEPT !.pc = "commit", !.calls = log ]
                 ELSE [ task EXCEPT
                          !.pc = "return", !.calls = log,
                          !.outcome = Return(NoGitResult(file_path)) ]
         IN  /\ fs' = write_text(fs, file_path, new_content, ok)
             /\ tasks' = [ tasks EXCEPT ![t] = next ]
             /\ running' = Holder(t, next.pc)
    /\ UNCHANGED << aider_io, aider_git_repo, started >>

\* aider_git_repo.commit(message=commit_message, files=[file_path]) and the
\* result built after it.
CommitStep(t) ==
    /\ tasks[t].pc = "commit"
    /\ CanRun(t)
    /\ \E ok \in BOOLEAN :
         LET task == tasks[t]
             file_path == task.params.file_path
             log == Append(task.calls,
                       Call("commit", <<>>, fs[file_path], ok,
                            CommitMessage(file_path), << file_path >>))
             next ==
                 [ task EXCEPT
                     !.pc = "return", !.calls = log,
                     !.outcome = IF ok THEN Return(CommittedResult(file_path))
                                 ELSE CommitExcept(file_path, "GitError") ]
         IN  /\ tasks' = [ tasks EXCEPT ![t] = next ]
             /\ running' = Holder(t, next.pc)
    /\ UNCHANGED << aider_io, aider_git_repo, started, fs >>

\* The handler returns or raises into handle_mcp_request, which wraps the
\* result, or the exception, in a JsonRpcResponse and returns it.
ReturnResponse(t) ==
    /\ tasks[t].pc = "return"
    /\ CanRun(t)
    /\ LET task == tasks[t]
           response ==
               IF task.outcome.raised
               THEN JsonRpcResponse(NullResult, ServerError(task.outcome.exc),
                                    task.request.id)
               ELSE JsonRpcResponse(task.outcome.result, NullError,
                                    task.request.id)
       IN  tasks' = [ tasks EXCEPT ![t] = [ task EXCEPT !.pc = "done",
                                                       !.response = response ] ]
    /\ running' = 0
    /\ UNCHANGED << aider_io, aider_git_repo, started, fs >>

\* The framework has sent the response; the task is gone.
Reply(t) ==
    /\ tasks[t].pc = "done"
    /\ tasks' = [ tasks EXCEPT ![t] = IdleTask ]
    /\ UNCHANGED << aider_io, aider_git_repo, started, fs, running >>

\* ---------------------------------------------------------- specifications

\* One request at a time, of every shape.
Next ==
    \/ \E io \in { None, "io" }, repo \in { None, "repo" } : run_server(io, repo)
    \/ \E req \in Requests : Receive(1, req)
    \/ Enter(1)
    \/ ReadStep(1)
    \/ WriteStep(1)
    \/ CommitStep(1)
    \/ ReturnResponse(1)
    \/ Reply(1)

Spec == Init /\ [][Next]_vars

\* The well-formed requests of the two methods, for the concurrent runs.
LoopRequests ==
    { req \in Requests :
        /\ req.id = None
        /\ \/ /\ req.method = "getContext"
              /\ req.params.file_paths_tag = "list"
              /\ Len(req.params.file_paths) = 1
           \/ /\ req.method = "applyChanges"
              /\ ApplyChangesParamsValid(req.params) }

\* Up to MaxTasks requests in flight on the one event loop.
NextLoop ==
    \/ \E io \in { None, "io" }, repo \in { None, "repo" } : run_server(io, repo)
    \/ \E t \in Tasks, req \in LoopRequests : Receive(t, req)
    \/ \E t \in Tasks : Enter(t)
    \/ \E t \in Tasks : ReadStep(t)
    \/ \E t \in Tasks : WriteStep(t)
    \/ \E t \in Tasks : CommitStep(t)
    \/ \E t \in Tasks : ReturnResponse(t)
    \/ \E t \in Tasks : Reply(t)

SpecLoop == Init /\ [][NextLoop]_vars

\* ------------------------------------------------------------- properties

Range(seq) == { seq[k] : k \in 1..Len(seq) }

\* Task t has returned its response.
Done(t) == tasks[t].pc = "done"

\* Task t was dispatched to the named handler.
Handled(t, method) ==
    /\ Done(t)
    /\ tasks[t].request.method = method
    /\ ~ (tasks[t].response.error.kind = "error"
          /\ tasks[t].response.error.code
                \in { INVALID_REQUEST, INTERNAL_ERROR, METHOD_NOT_FOUND })

\* The provider calls of task t with the given operation and outcome.
CallsOf(t, op, ok) ==
    { k \in 1..Len(tasks[t].calls) :
        tasks[t].calls[k].op = op /\ tasks[t].calls[k].ok = ok }

\* The response of task t is the protocol error with this code, and nothing else.
IsError(t, code) ==
    /\ tasks[t].response.error.kind = "error"
    /\ tasks[t].response.error.code = code
    /\ tasks[t].response.result.kind = "null"

\* The response of task t is a result of this kind, and no error.
IsResult(t, kind) ==
    /\ tasks[t].response.error.kind = "null"
    /\ tasks[t].response.result.kind = kind

\* An applyChanges request with well-formed params whose write raised.
WriteFailed(t) ==
    /\ Handled(t, "applyChanges")
    /\ ApplyChangesParamsValid(ParamsOrEmpty(tasks[t].request.params))
    /\ CallsOf(t, "write", FALSE) # {}

\* C1 as stated: whenever the write of an applyChanges request raises, the
\* response is the protocol error -32000 with no result.
C1_WriteFailureIsProtocolError ==
    \A t \in Tasks : WriteFailed(t) => IsError(t, SERVER_ERROR)

\* C1, amended: whenever the write of an applyChanges request raises, the
\* handler's own except clause absorbs the failure: the response is a
\* JSON-RPC result, with no error, whose ApplyChangesResult payload has
\* success = false and the message "Error applying changes: <description>".
C1_WriteFailureIsFailedResult ==
    \A t \in Tasks :
        WriteFailed(t) =>
            /\ IsResult(t, "ApplyChangesResult")
            /\ tasks[t].response.result.success = FALSE
            /\ tasks[t].response.result.message
                  = <<"Error applying changes: ", "PermissionError">>

C1_Witness == \E t \in Tasks : WriteFailed(t)

\* C2 as stated: every response produced while aider_io is unset carries
\* -32603, whatever the method, the empty one included.
C2_UnsetAlwaysInternalError ==
    \A t \in Tasks :
        (Done(t) /\ aider_io = None) => IsError(t, INTERNAL_ERROR)

\* C2, amended: every request with a non-empty method that is dispatched
\* while aider_io is unset is answered with -32603, whether the method is
\* recognized or not; a request with an empty method is answered with
\* -32600 even then, because the method is examined first.
C2_UnsetNonEmptyMethodInternalError ==
    \A t \in Tasks :
        (Done(t) /\ aider_io = None) =>
            IF tasks[t].request.method = ""
            THEN IsError(t, INVALID_REQUEST)
            ELSE IsError(t, INTERNAL_ERROR)

C2_Witness ==
    \E t \in Tasks :
        /\ Done(t)
        /\ aider_io = None
        /\ tasks[t].request.method = "listTools"

\* C3: on every outcome path the response carries the identifier of the
\* request, and None when the request carried none.
C3_EchoLaw ==
    \A t \in Tasks : Done(t) => tasks[t].response.id = tasks[t].request.id

C3_Witness ==
    \E t \in Tasks :
        /\ Done(t)
        /\ tasks[t].request.id = "int:7"
        /\ IsError(t, SERVER_ERROR)

\* C4 as stated: the files mapping of a getContext result has as many keys
\* as the file_paths list has entries.
C4_KeysEqualEntries ==
    \A t \in Tasks :
        (Handled(t, "getContext") /\ IsResult(t, "GetContextResult")) =>
            Cardinality(DOMAIN tasks[t].response.result.files)
                = Len(tasks[t].params.file_paths)

\* C4, amended: the keys of the files mapping of a getContext result are
\* exactly the distinct paths of the file_paths list, whatever the reads
\* did: there are N keys when the N entries are pairwise different, and
\* fewer when a path is named more than once.
C4_KeysAreDistinctPaths ==
    \A t \in Tasks :
        (Handled(t, "getContext") /\ IsResult(t, "GetContextResult")) =>
            DOMAIN tasks[t].response.result.files
                = Range(tasks[t].params.file_paths)

C4_Witness ==
    \E t \in Tasks :
        /\ Handled(t, "getContext")
        /\ IsResult(t, "GetContextResult")
        /\ Len(tasks[t].params.file_paths) = 2
        /\ Cardinality(Range(tasks[t].params.file_paths)) = 1
        /\ CallsOf(t, "read", FALSE) # {}

\* An applyChanges request whose write succeeded and whose commit raised.
CommitFailed(t) ==
    /\ Handled(t, "applyChanges")
    /\ CallsOf(t, "write", TRUE) # {}
    /\ CallsOf(t, "commit", FALSE) # {}

\* C5: when the write of an applyChanges request succeeds and the commit
\* raises, the response is a JSON-RPC result with no error, success = true
\* and the message "Changes applied to <path> but not committed: ...", and
\* the file holds the new content.
C5_CommitFailureAbsorbed ==
    \A t \in Tasks :
        CommitFailed(t) =>
            /\ IsResult(t, "ApplyChangesResult")
            /\ tasks[t].response.result.success = TRUE
            /\ tasks[t].response.result.message
                  = <<"Changes applied to ">> \o tasks[t].request.params.file_path
                        \o <<" but not committed: ", "GitError">>
            /\ fs[tasks[t].request.params.file_path]
                  = tasks[t].request.params.content

C5_Witness ==
    \E t \in Tasks :
        /\ CommitFailed(t)
        /\ tasks[t].request.params.file_path = <<"d", "/", "b">>

\* name is the part of path after its last "/", the whole path when it has
\* none.
IsBaseNameOf(name, path) ==
    /\ Len(name) <= Len(path)
    /\ name = SubSeq(path, Len(path) - Len(name) + 1, Len(path))
    /\ \A k \in 1..Len(name) : name[k] # "/"
    /\ Len(name) < Len(path) => path[Len(path) - Len(name)] = "/"

\* C6: at every point of a request, commit has been invoked at most once;
\* when it has, a version-control provider is configured, the call came
\* directly after the successful write of the same request, its file list
\* is exactly the written path, and its message is "MCP: Apply changes to "
\* followed by the base name of that path.  A request whose write raised,
\* or that ran without a version-control provider, has no commit call.
C6_CommitOnceAfterWrite ==
    \A t \in Tasks :
        LET calls == tasks[t].calls
            commits == { k \in 1..Len(calls) : calls[k].op = "commit" }
        IN  /\ Cardinality(commits) <= 1
            /\ \A k \in commits :
                 /\ aider_git_repo # None
                 /\ k = 2
                 /\ calls[1].op = "write"
                 /\ calls[1].ok
                 /\ calls[1].path = tasks[t].request.params.file_path
                 /\ calls[k].files = << tasks[t].request.params.file_path >>
                 /\ Len(calls[k].message) >= 1
                 /\ calls[k].message[1] = "MCP: Apply changes to "
                 /\ IsBaseNameOf(Tail(calls[k].message),
                                 tasks[t].request.params.file_path)
            /\ (CallsOf(t, "write", FALSE) # {}) => commits = {}
            /\ (Done(t) /\ ~tasks[t].has_git) => commits = {}
            /\ (Done(t) /\ tasks[t].has_git /\ CallsOf(t, "write", TRUE) # {})
                  => commits # {}

C6_Witness ==
    \E t \in Tasks :
        /\ Done(t)
        /\ CallsOf(t, "commit", TRUE) # {}
        /\ tasks[t].request.params.file_path = <<"d", "/", "b">>

\* C7: every response carries exactly one of result and error.
C7_ResultXorError ==
    \A t \in Tasks :
        Done(t) =>
            (tasks[t].response.result.kind = "null")
                # (tasks[t].response.error.kind = "null")

C7_Witness ==
    \E t \in Tasks :
        /\ Done(t)
        /\ tasks[t].request.method = "listTools"
        /\ IsError(t, METHOD_NOT_FOUND)

\* A request dispatched to the named handler whose params do not
\* deserialize into the handler's parameter model.
Malformed(t, method) ==
    /\ Handled(t, method)
    /\ IF method = "getContext"
       THEN ~GetContextParamsValid(ParamsOrEmpty(tasks[t].request.params))
       ELSE ~ApplyChangesParamsValid(ParamsOrEmpty(tasks[t].request.params))

\* C8 as stated: for both methods, params that do not deserialize produce
\* the protocol error -32000, with no result and no provider call.
C8_MalformedIsProtocolError ==
    \A t \in Tasks :
        \A method \in { "getContext", "applyChanges" } :
            Malformed(t, method) =>
                (IsError(t, SERVER_ERROR) /\ tasks[t].calls = <<>>)

\* C8, amended: getContext params that do not deserialize produce the
\* protocol error -32000 with no result; applyChanges params that do not
\* deserialize are absorbed by the handler's own except clause and produce
\* a JSON-RPC result, with no error, whose payload has success = false and
\* the message "Error applying changes: <description>".  In both cases no
\* provider is called: no file is read, written or committed.
C8_MalformedPerMethod ==
    \A t \in Tasks :
        /\ Malformed(t, "getContext") =>
              (IsError(t, SERVER_ERROR) /\ tasks[t].calls = <<>>)
        /\ Malformed(t, "applyChanges") =>
              /\ IsResult(t, "ApplyChangesResult")
              /\ tasks[t].response.result.success = FALSE
              /\ tasks[t].response.result.message
                    = <<"Error applying changes: ", "ValidationError">>
              /\ tasks[t].calls = <<>>

C8_Witness ==
    \E t \in Tasks :
        /\ Malformed(t, "applyChanges")
        /\ tasks[t].request.params.file_path_tag = "str"
        /\ tasks[t].request.params.content_tag = "absent"

\* C9: a getContext request whose params deserialize always ends in a
\* result, never in a protocol error; every path of the list was read, in
\* order, also after a read that failed; a path whose read fails (missing
\* file or any other failure) maps to None and a path whose read succeeds
\* maps to its content.
C9_ReadsAreIndependent ==
    \A t \in Tasks :
        (/\ Handled(t, "getContext")
         /\ GetContextParamsValid(ParamsOrEmpty(tasks[t].request.params))) =>
            LET paths == tasks[t].request.params.file_paths
                files == tasks[t].response.result.files
                calls == tasks[t].calls
            IN  /\ IsResult(t, "GetContextResult")
                /\ Len(calls) = Len(paths)
                /\ \A k \in 1..Len(paths) :
                     /\ calls[k].op = "read"
                     /\ calls[k].path = paths[k]
                     /\ paths[k] \in DOMAIN files
                     /\ files[paths[k]]
                          = IF fs[paths[k]] \in Contents THEN fs[paths[k]]
                            ELSE None

C9_Witness ==
    \E t \in Tasks :
        /\ Handled(t, "getContext")
        /\ tasks[t].request.params.file_paths_tag = "list"
        /\ tasks[t].request.params.file_paths = << <<"a">>, <<"d", "/", "b">> >>
        /\ fs[<<"a">>] = Unreadable
        /\ fs[<<"d", "/", "b">>] = "y"

\* The tasks that are between the entry and the return of the endpoint.
InHandler == { t \in Tasks : tasks[t].pc \in { "read", "write", "commit", "return" } }

\* C10: on the one event loop at most one request is between entry and
\* return, and it is the one the loop is running; so when a request is about
\* to commit, and when it has committed, the file holds exactly the content
\* that this request wrote, whatever other requests are in flight.
C10_NoInterleaving ==
    /\ Cardinality(InHandler) <= 1
    /\ \A t \in InHandler : running = t
    /\ \A t \in Tasks :
         /\ tasks[t].pc = "commit" =>
               fs[tasks[t].params.file_path] = tasks[t].params.content
         /\ \A k \in 1..Len(tasks[t].calls) :
               tasks[t].calls[k].op = "commit" =>
                   tasks[t].calls[k].content = tasks[t].params.content

C10_Witness ==
    \E t, u \in Tasks :
        /\ t # u
        /\ tasks[t].pc = "commit"
        /\ tasks[u].pc = "ready"
        /\ tasks[u].request.method = "applyChanges"
        /\ tasks[u].request.params.file_path = tasks[t].params.file_path
        /\ tasks[u].request.params.content # tasks[t].params.content

====
